---- MODULE Spec2Model ----
(***************************************************************************)
(* A model of src/vip.py: the EmaktabAutomation class.  The program is     *)
(* sequential; pc is the position of the one thread of control.  Browser,  *)
(* network and file-system calls are steps whose outcome the environment   *)
(* chooses.  Strings are sequences of one-character strings.               *)
(***************************************************************************)
EXTENDS Integers, Sequences, FiniteSets, TLC

VARIABLES
    pc,                \* position of the thread of control
    file_exists,       \* os.path.exists(LOGIN_FILE)
    file_text,         \* the content of LOGIN_FILE
    file_was_missing,  \* history: LOGIN_FILE did not exist when __init__ ran
    credentials_list,  \* self.credentials_list
    driver,            \* self.driver: 0 is None, else the id of a browser session
    session_active,    \* self.session_active
    main_window,       \* self.main_window: 0 is None, else the session it is a handle of
    opened,            \* number of browser sessions webdriver.Chrome() has constructed
    health,            \* state of the browser session self.driver refers to
    closed,            \* the sessions driver.quit() has been called on
    quit_calls,        \* history: calls of quit() on the session self.driver refers to
    recovered,         \* history: init_driver was called again, from line 228
    init_ret,          \* the caller init_driver returns to
    idx,               \* process_all_accounts: idx of the enumerate loop
    success_count,     \* process_all_accounts: success_count
    pa_ret,            \* the value process_account returned
    attempt,           \* process_account: attempt
    site,              \* process_account: the capture step in progress
    al_ret,            \* the value attempt_login returned
    url,               \* the address driver.current_url last returned
    captcha_text,      \* the value solve_captcha returned
    retry,             \* solve_captcha: retry
    result,            \* solve_captcha: result, the decoded body of the OCR response
    tmp_files,         \* temporary image files of the current solve_captcha still on disk
    interrupted,       \* a KeyboardInterrupt is propagating
    started,           \* history: the idx values process_account was called for
    login_ok,          \* history: the idx values for which attempt_login returned True
    login_calls,       \* history: calls of attempt_login for the current credential
    backoffs,          \* history: backoff sleeps (line 379) for the current credential
    path,              \* history: the branch the current attempt_login returned from
    submits,           \* history: clicks of the login button in the current attempt_login
    solve_calls,       \* history: calls of solve_captcha in the current attempt_login
    iterations,        \* history: iterations started in the current solve_captcha
    captcha_sleeps,    \* history: sleeps (line 204) in the current solve_captcha
    lost,              \* history: the session that died in the attempt_login before this one, or 0
    round_trip,        \* history: the last step was a liveness check that read current_url
    navs,              \* history: the sections navigate_to_section returned True for
    logouts,           \* history: calls of perform_logout for the current credential
    backoff_intervals, \* history: the intervals of the backoffs of the current credential
    logged_in          \* the browser session holds the login attempt_login reported

fileVars    == <<file_exists, file_text, file_was_missing, credentials_list>>
sessionVars == <<driver, session_active, main_window, opened, health, closed,
                 quit_calls, recovered, init_ret>>
loopVars    == <<idx, success_count, pa_ret, started, login_ok>>
accountVars == <<attempt, site, al_ret, login_calls, backoffs>>
loginVars   == <<url, captcha_text, path, submits, solve_calls>>
captchaVars == <<retry, result, tmp_files, iterations, captcha_sleeps>>
traceVars   == <<lost, navs, logouts, backoff_intervals, logged_in>>

vars == <<pc, fileVars, sessionVars, loopVars, accountVars, loginVars,
          captchaVars, interrupted, round_trip, traceVars>>

-----------------------------------------------------------------------------
(* Program constants *)

MAX_ATTEMPTS == 3
MAX_CAPTCHA_RETRIES == 2
CAPTCHA_LENGTH == 5

(* Bounds of the model *)

MaxFileLen == 7     \* most characters in LOGIN_FILE
MaxTextLen == 6     \* longest ParsedText the OCR service returns
MaxCreds == 2       \* most credentials in credentials_list

-----------------------------------------------------------------------------
(* Strings *)

RECURSIVE StringsUpTo(_, _)
StringsUpTo(alphabet, n) ==
    IF n = 0 THEN {<<>>}
    ELSE LET shorter == StringsUpTo(alphabet, n - 1)
         IN  shorter \cup {Append(s, c) : s \in shorter, c \in alphabet}

IsSpace(c) == c \in {" ", "\n"}

RECURSIVE LStrip(_)
LStrip(s) == IF s # <<>> /\ IsSpace(Head(s)) THEN LStrip(Tail(s)) ELSE s

RECURSIVE RStrip(_)
RStrip(s) ==
    IF s # <<>> /\ IsSpace(s[Len(s)]) THEN RStrip(SubSeq(s, 1, Len(s) - 1)) ELSE s

\* str.strip()
Strip(s) == RStrip(LStrip(s))

\* c in s, for a one-character c
Contains(s, c) == \E i \in 1..Len(s) : s[i] = c

\* s.split(c, 1) of a string that contains c
RECURSIVE SplitFirst(_, _)
SplitFirst(s, c) ==
    IF Head(s) = c THEN <<<<>>, Tail(s)>>
    ELSE LET rest == SplitFirst(Tail(s), c)
         IN  <<<<Head(s)>> \o rest[1], rest[2]>>

-----------------------------------------------------------------------------
(* load_credentials *)

FileAlphabet == {"a", ":", " ", "\n"}
FileTexts == StringsUpTo(FileAlphabet, MaxFileLen)

\* f.readlines(): the lines of the text, each with its line end
RECURSIVE ReadLinesFrom(_, _)
ReadLinesFrom(text, line) ==
    IF text = <<>> THEN (IF line = <<>> THEN <<>> ELSE <<line>>)
    ELSE IF Head(text) = "\n"
         THEN <<Append(line, "\n")>> \o ReadLinesFrom(Tail(text), <<>>)
         ELSE ReadLinesFrom(Tail(text), Append(line, Head(text)))

readlines(text) == ReadLinesFrom(text, <<>>)

\* line 62: [line.strip() for line in f.readlines() if line.strip()]
RECURSIVE StrippedLines(_)
StrippedLines(raw) ==
    IF raw = <<>> THEN <<>>
    ELSE IF Strip(Head(raw)) # <<>>
         THEN <<Strip(Head(raw))>> \o StrippedLines(Tail(raw))
         ELSE StrippedLines(Tail(raw))

\* line 68-69
CredPair(line) ==
    LET parts == SplitFirst(line, ":")
    IN  <<Strip(parts[1]), Strip(parts[2])>>

\* ParseLines without the test of seen: duplicates are kept
RECURSIVE ParseLines_NoDedup(_, _, _)
ParseLines_NoDedup(lines, seen, valid_credentials) ==
    IF lines = <<>> THEN valid_credentials
    ELSE IF Contains(Head(lines), ":")
         THEN ParseLines_NoDedup(Tail(lines), seen,
                                 Append(valid_credentials, CredPair(Head(lines))))
         ELSE ParseLines_NoDedup(Tail(lines), seen, valid_credentials)

\* lines 64-74: the loop over lines, with seen and valid_credentials
RECURSIVE ParseLines(_, _, _)
ParseLines(lines, seen, valid_credentials) ==
    IF lines = <<>> THEN valid_credentials
    ELSE LET line == Head(lines)
         IN  IF Contains(line, ":")
             THEN LET cred_pair == CredPair(line)
                  IN  IF cred_pair \notin seen
                      THEN ParseLines(Tail(lines), seen \cup {cred_pair},
                                      Append(valid_credentials, cred_pair))
                      ELSE ParseLines(Tail(lines), seen, valid_credentials)
             ELSE ParseLines(Tail(lines), seen, valid_credentials)

\* LoadMissing without lines 58-59: the missing file is opened for reading
LoadMissing_NoCreate ==
    /\ pc = "load"
    /\ ~file_exists
    /\ pc' = "crashed"
    /\ round_trip' = FALSE
    /\ UNCHANGED <<traceVars, fileVars, sessionVars, loopVars, accountVars, loginVars,
                   captchaVars, interrupted>>

\* lines 56-59: the file is missing
LoadMissing ==
    /\ pc = "load"
    /\ ~file_exists
    /\ file_exists' = TRUE
    /\ file_text' = <<>>
    /\ pc' = "constructed"
    /\ round_trip' = FALSE
    /\ UNCHANGED <<traceVars, file_was_missing, credentials_list, sessionVars, loopVars,
                   accountVars, loginVars, captchaVars, interrupted>>

\* lines 61-77: the file exists
LoadFile ==
    /\ pc = "load"
    /\ file_exists
    /\ credentials_list' = ParseLines(StrippedLines(readlines(file_text)), {}, <<>>)
    /\ pc' = "constructed"
    /\ round_trip' = FALSE
    /\ UNCHANGED <<traceVars, file_exists, file_text, file_was_missing, sessionVars,
                   loopVars,
                   accountVars, loginVars, captchaVars, interrupted>>

load_credentials == LoadMissing \/ LoadFile

-----------------------------------------------------------------------------
(* The state __init__ sets up, lines 46-52 *)

NoText == <<"None">>
NoResult == [kind |-> "none", text |-> <<>>]

Fresh ==
    /\ driver = 0
    /\ session_active = FALSE
    /\ main_window = 0
    /\ opened = 0
    /\ health = "none"
    /\ closed = {}
    /\ quit_calls = 0
    /\ recovered = FALSE
    /\ init_ret = "none"
    /\ idx = 0
    /\ success_count = 0
    /\ pa_ret = FALSE
    /\ attempt = 0
    /\ site = "none"
    /\ al_ret = FALSE
    /\ url = <<>>
    /\ captcha_text = NoText
    /\ retry = 0
    /\ result = NoResult
    /\ tmp_files = 0
    /\ interrupted = FALSE
    /\ started = <<>>
    /\ login_ok = {}
    /\ login_calls = 0
    /\ backoffs = 0
    /\ path = "none"
    /\ submits = 0
    /\ solve_calls = 0
    /\ iterations = 0
    /\ captcha_sleeps = 0
    /\ round_trip = FALSE
    /\ lost = 0
    /\ navs = {}
    /\ logouts = 0
    /\ backoff_intervals = <<>>
    /\ logged_in = FALSE

\* __init__ up to the call of load_credentials, for every LOGIN_FILE
InitLoad ==
    /\ pc = "load"
    /\ file_exists \in BOOLEAN
    /\ file_text \in (IF file_exists THEN FileTexts ELSE {<<>>})
    /\ file_was_missing = ~file_exists
    /\ credentials_list = <<>>
    /\ Fresh

NextLoad == load_credentials

SpecLoad == InitLoad /\ [][NextLoad]_vars

-----------------------------------------------------------------------------
(* The browser session behind self.driver.  A call on a live session ends  *)
(* normally ("ok"), with an exception that leaves the session usable       *)
(* ("error": TimeoutException, NoSuchElementException, ...) or with         *)
(* InvalidSessionIdException ("invalid"), after which the session is dead  *)
(* and every call on it ends that way.                                      *)

BrowserOutcomes == IF health = "live" THEN {"ok", "error", "invalid"} ELSE {"invalid"}
HealthAfter(out) == IF out = "invalid" THEN "dead" ELSE health

sessionKeep == <<driver, main_window, opened, closed, quit_calls, recovered, init_ret>>

\* check_session_active without line 219: the flag stays when current_url raises
check_session_active_NoFlip(ret) ==
    \/ /\ ~session_active
       /\ ret = FALSE
       /\ round_trip' = FALSE
       /\ UNCHANGED <<session_active, health>>
    \/ /\ session_active
       /\ round_trip' = TRUE
       /\ \E out \in BrowserOutcomes :
             /\ health' = HealthAfter(out)
             /\ ret = (out = "ok")
             /\ session_active' = session_active

\* lines 209-220: check_session_active returning ret
check_session_active(ret) ==
    \/ /\ ~session_active
       /\ ret = FALSE
       /\ round_trip' = FALSE
       /\ UNCHANGED <<session_active, health>>
    \/ /\ session_active
       /\ round_trip' = TRUE
       /\ \E out \in BrowserOutcomes :
             /\ health' = HealthAfter(out)
             /\ IF out = "ok"
                THEN ret = TRUE /\ session_active' = session_active
                ELSE ret = FALSE /\ session_active' = FALSE

\* lines 292-297: the handler of attempt_login, for an exception of this kind
LoginExcept(kind) ==
    /\ session_active' = IF kind = "invalid" THEN FALSE ELSE session_active
    /\ al_ret' = FALSE
    /\ path' = "exception"
    /\ pc' = "pa_login_done"

\* an exception leaves init_driver
InitRaise(kind) ==
    IF init_ret = "paa"
    THEN \* line 398 is outside the try: the exception reaches line 430
         /\ pc' = "crashed"
         /\ UNCHANGED <<session_active, al_ret, path>>
    ELSE LoginExcept(kind)

\* lines 92-96: quit the previous session, whatever quit() raises
InitQuit ==
    /\ pc = "init_quit"
    /\ IF driver # 0
       THEN /\ closed' = closed \cup {driver}
            /\ quit_calls' = quit_calls + 1
            /\ health' = "quit"
       ELSE UNCHANGED <<closed, quit_calls, health>>
    /\ round_trip' = FALSE
    /\ pc' = "init_construct"
    /\ UNCHANGED <<lost, navs, logouts, backoff_intervals, logged_in, fileVars, driver,
                   session_active, main_window, opened, recovered,
                   init_ret, loopVars, accountVars, loginVars, captchaVars, interrupted>>

\* lines 98-116: webdriver.Chrome() starts a browser or raises
InitConstruct ==
    /\ pc = "init_construct"
    /\ \/ /\ opened' = opened + 1
          /\ driver' = opened + 1
          /\ health' = "live"
          /\ quit_calls' = 0
          /\ logged_in' = FALSE
          /\ pc' = "init_setup"
          /\ UNCHANGED <<session_active, al_ret, path>>
       \/ /\ InitRaise("error")
          /\ UNCHANGED <<opened, driver, health, quit_calls, logged_in>>
    /\ round_trip' = FALSE
    /\ UNCHANGED <<lost, navs, logouts, backoff_intervals, fileVars, main_window,
                   closed, recovered, init_ret,
                   loopVars, attempt, site, login_calls, backoffs, url, captcha_text,
                   submits, solve_calls, captchaVars, interrupted>>

\* lines 119-122: the calls on the new session, then session_active = True
InitSetup ==
    /\ pc = "init_setup"
    /\ \E out \in BrowserOutcomes :
          /\ health' = HealthAfter(out)
          /\ IF out = "ok"
             THEN /\ main_window' = driver
                  /\ session_active' = TRUE
                  /\ pc' = IF init_ret = "paa" THEN "paa_enter" ELSE "al_get"
                  /\ UNCHANGED <<al_ret, path>>
             ELSE /\ InitRaise(out)
                  /\ UNCHANGED main_window
    /\ round_trip' = FALSE
    /\ UNCHANGED <<traceVars, fileVars, driver, opened, closed, quit_calls, recovered,
                   init_ret,
                   loopVars, attempt, site, login_calls, backoffs, url, captcha_text,
                   submits, solve_calls, captchaVars, interrupted>>

init_driver == InitQuit \/ InitConstruct \/ InitSetup

-----------------------------------------------------------------------------
(* solve_captcha *)

IsDigit(c) == c \in {"0", "1", "2", "3", "4", "5", "6", "7", "8", "9"}

\* line 182: ''.join(filter(str.isdigit, parsed_text))
RECURSIVE FilterDigits(_)
FilterDigits(s) ==
    IF s = <<>> THEN <<>>
    ELSE IF IsDigit(Head(s)) THEN <<Head(s)>> \o FilterDigits(Tail(s))
         ELSE FilterDigits(Tail(s))

\* ScContinue with the bound of the loop off by one
ScContinue_OneMore ==
    IF retry + 1 <= MAX_CAPTCHA_RETRIES
    THEN /\ retry' = retry + 1
         /\ iterations' = iterations + 1
         /\ pc' = "sc_locate"
         /\ UNCHANGED captcha_text
    ELSE /\ captcha_text' = NoText
         /\ pc' = "sc_return"
         /\ UNCHANGED <<retry, iterations>>

\* the next iteration of the for loop of line 126, or lines 206-207 after the last
ScContinue ==
    IF retry + 1 < MAX_CAPTCHA_RETRIES
    THEN /\ retry' = retry + 1
         /\ iterations' = iterations + 1
         /\ pc' = "sc_locate"
         /\ UNCHANGED captcha_text
    ELSE /\ captcha_text' = NoText
         /\ pc' = "sc_return"
         /\ UNCHANGED <<retry, iterations>>

\* lines 129-135: find the captcha image and read its src; lines 201-202 on an exception
ScLocate ==
    /\ pc = "sc_locate"
    /\ \E out \in BrowserOutcomes :
          /\ health' = HealthAfter(out)
          /\ IF out = "ok"
             THEN \E captcha_src \in BOOLEAN :
                     IF captcha_src
                     THEN pc' = "sc_download" /\ UNCHANGED <<retry, iterations,
                                                             captcha_text>>
                     ELSE ScContinue
             ELSE IF retry < MAX_CAPTCHA_RETRIES - 1
                  THEN pc' = "sc_sleep" /\ UNCHANGED <<retry, iterations, captcha_text>>
                  ELSE ScContinue
    /\ round_trip' = FALSE
    /\ UNCHANGED <<traceVars, fileVars, sessionKeep, session_active, loopVars,
                   accountVars, url,
                   path, submits, solve_calls, result, tmp_files, captcha_sleeps,
                   interrupted>>

\* lines 203-204: the sleep of the outer handler, then the next iteration
ScSleep ==
    /\ pc = "sc_sleep"
    /\ captcha_sleeps' = captcha_sleeps + 1
    /\ ScContinue
    /\ round_trip' = FALSE
    /\ UNCHANGED <<traceVars, fileVars, sessionVars, loopVars, accountVars, url, path,
                   submits,
                   solve_calls, result, tmp_files, interrupted>>

\* lines 138-143: download the image
ScDownload ==
    /\ pc = "sc_download"
    /\ \E downloaded \in BOOLEAN :
          IF downloaded
          THEN pc' = "sc_save" /\ UNCHANGED <<retry, iterations, captcha_text>>
          ELSE ScContinue
    /\ round_trip' = FALSE
    /\ UNCHANGED <<traceVars, fileVars, sessionVars, loopVars, accountVars, url, path,
                   submits,
                   solve_calls, result, tmp_files, captcha_sleeps, interrupted>>

\* lines 146-152: NamedTemporaryFile(delete=False) creates the file, write fills it;
\* an IOError of either is the continue of line 152
ScSave ==
    /\ pc = "sc_save"
    /\ \E out \in {"ok", "create_failed", "write_failed"} :
          /\ tmp_files' = IF out = "create_failed" THEN tmp_files ELSE tmp_files + 1
          /\ IF out = "ok"
             THEN pc' = "sc_ocr" /\ UNCHANGED <<retry, iterations, captcha_text>>
             ELSE ScContinue
    /\ round_trip' = FALSE
    /\ UNCHANGED <<traceVars, fileVars, sessionVars, loopVars, accountVars, url, path,
                   submits,
                   solve_calls, result, captcha_sleeps, interrupted>>

\* lines 155-172: post the image and decode the response, which is one of results;
\* lines 192-199 when the post or the decoding raises
ScOcr(results) ==
    /\ pc = "sc_ocr"
    /\ \/ /\ \E r \in results : result' = r
          /\ pc' = "sc_parse"
          /\ UNCHANGED <<retry, iterations, captcha_text, tmp_files>>
       \/ /\ tmp_files' = tmp_files - 1
          /\ ScContinue
          /\ UNCHANGED result
    /\ round_trip' = FALSE
    /\ UNCHANGED <<traceVars, fileVars, sessionVars, loopVars, accountVars, url, path,
                   submits,
                   solve_calls, captcha_sleeps, interrupted>>

\* ScValidate that rejects only a text that is too short
ScValidate_AtLeast(text) ==
    IF Len(text) < CAPTCHA_LENGTH
    THEN ScContinue
    ELSE /\ captcha_text' = text
         /\ pc' = "sc_return"
         /\ UNCHANGED <<retry, iterations>>

\* lines 185-190: the validation of captcha_text
ScValidate(text) ==
    IF Len(text) # CAPTCHA_LENGTH
    THEN ScContinue
    ELSE /\ captcha_text' = text
         /\ pc' = "sc_return"
         /\ UNCHANGED <<retry, iterations>>

\* lines 175-199: read result; the finally of lines 194-199 removes the file
ScParse ==
    /\ pc = "sc_parse"
    /\ tmp_files' = tmp_files - 1
    /\ CASE result.kind = "errored" -> ScContinue
         [] result.kind = "parsed" -> ScValidate(FilterDigits(Strip(result.text)))
         [] OTHER -> ScContinue
    /\ round_trip' = FALSE
    /\ UNCHANGED <<traceVars, fileVars, sessionVars, loopVars, accountVars, url, path,
                   submits,
                   solve_calls, result, captcha_sleeps, interrupted>>

solve_captcha(results) ==
    ScLocate \/ ScSleep \/ ScDownload \/ ScSave \/ ScOcr(results) \/ ScParse

\* the bodies the OCR service answers with: a processing error, no ParsedResults,
\* a body without the expected keys, or a ParsedText
OcrAlphabet == {"1", " ", "x"}
OcrTexts == StringsUpTo(OcrAlphabet, MaxTextLen)
OcrResults(texts) ==
    {[kind |-> k, text |-> <<>>] : k \in {"errored", "empty", "malformed"}}
        \cup {[kind |-> "parsed", text |-> t] : t \in texts}

-----------------------------------------------------------------------------
(* attempt_login *)

LoginUrl == <<"login", "emaktab", "uz">>
Urls == {LoginUrl, <<"emaktab", "uz", "userfeed">>, <<"emaktab", "uz", "login">>}

\* lines 255, 286: "login" in self.driver.current_url
HasLogin(u) == \E i \in 1..Len(u) : u[i] = "login"

\* return result from attempt_login, by the branch p
LoginReturn(res, p) ==
    /\ al_ret' = res
    /\ path' = p
    /\ pc' = "pa_login_done"

\* AlCheck without line 228: the attempt goes on when the check has failed
AlCheck_NoRecover ==
    /\ pc = "al_check"
    /\ \E alive \in BOOLEAN : check_session_active(alive)
    /\ pc' = "al_get"
    /\ UNCHANGED <<init_ret, recovered>>
    /\ UNCHANGED <<lost, navs, logouts, backoff_intervals, logged_in, fileVars, driver,
                   main_window, opened, closed, quit_calls, loopVars,
                   accountVars, loginVars, captchaVars, interrupted>>

\* lines 226-228: the liveness check, and init_driver when it fails
AlCheck ==
    /\ pc = "al_check"
    /\ \E alive \in BOOLEAN :
          /\ check_session_active(alive)
          /\ IF alive
             THEN pc' = "al_get" /\ UNCHANGED <<init_ret, recovered>>
             ELSE /\ pc' = "init_quit"
                  /\ init_ret' = "login"
                  /\ recovered' = TRUE
    /\ UNCHANGED <<lost, navs, logouts, backoff_intervals, logged_in, fileVars, driver,
                   main_window, opened, closed, quit_calls, loopVars,
                   accountVars, loginVars, captchaVars, interrupted>>

\* one browser step of attempt_login that leads to next, or to the handler
LoginStep(at, next) ==
    /\ pc = at
    /\ lost' = IF at = "al_get" THEN 0 ELSE lost
    /\ \E out \in BrowserOutcomes :
          /\ health' = HealthAfter(out)
          /\ IF out = "ok"
             THEN pc' = next /\ UNCHANGED <<session_active, al_ret, path>>
             ELSE LoginExcept(out)
    /\ round_trip' = FALSE
    /\ UNCHANGED <<navs, logouts, backoff_intervals, logged_in, fileVars, sessionKeep,
                   loopVars, attempt, site, login_calls,
                   backoffs, url, captcha_text, submits, solve_calls, captchaVars,
                   interrupted>>

\* a click of the login button that leads to next; when it raises, the click was made or not
SubmitStep(at, next) ==
    /\ pc = at
    /\ \E out \in BrowserOutcomes :
          /\ health' = HealthAfter(out)
          /\ IF out = "ok"
             THEN /\ submits' = submits + 1
                  /\ pc' = next
                  /\ UNCHANGED <<session_active, al_ret, path>>
             ELSE /\ \E clicked \in {0, 1} : submits' = submits + clicked
                  /\ LoginExcept(out)
    /\ round_trip' = FALSE
    /\ UNCHANGED <<traceVars, fileVars, sessionKeep, loopVars, attempt, site, login_calls,
                   backoffs, url, captcha_text, solve_calls, captchaVars, interrupted>>

\* lines 231-232: open the login page
AlGet == LoginStep("al_get", "al_fill")

\* lines 235-244: find the fields and type the credentials
AlFill == LoginStep("al_fill", "al_submit")

\* lines 247-252: click the login button
AlSubmit == SubmitStep("al_submit", "al_url")

\* Classify with the test the wrong way round
Classify_Inverted(u) == HasLogin(u)

\* line 255: the outcome by the address after the submit
Classify(u) == ~HasLogin(u)

\* lines 255-257: read the address; success when it has no "login"
AlUrl ==
    /\ pc = "al_url"
    /\ \E out \in BrowserOutcomes :
          /\ health' = HealthAfter(out)
          /\ IF out = "ok"
             THEN /\ \E u \in Urls :
                        /\ url' = u
                        /\ IF Classify(u) THEN LoginReturn(TRUE, "address")
                           ELSE pc' = "al_probe" /\ UNCHANGED <<al_ret, path>>
                  /\ UNCHANGED session_active
             ELSE LoginExcept(out) /\ UNCHANGED url
    /\ round_trip' = FALSE
    /\ UNCHANGED <<traceVars, fileVars, sessionKeep, loopVars, attempt, site, login_calls,
                   backoffs, captcha_text, submits, solve_calls, captchaVars,
                   interrupted>>

\* lines 260-265 and 288-290: wait for the captcha image; call solve_captcha when it
\* is there, Failed on the TimeoutException
AlProbe ==
    /\ pc = "al_probe"
    /\ \E out \in BrowserOutcomes :
          /\ health' = HealthAfter(out)
          /\ CASE out = "ok" ->
                    /\ solve_calls' = solve_calls + 1
                    /\ retry' = 0
                    /\ iterations' = 1
                    /\ captcha_sleeps' = 0
                    /\ result' = NoResult
                    /\ pc' = "sc_locate"
                    /\ UNCHANGED <<session_active, al_ret, path>>
               [] out = "error" ->
                    /\ LoginReturn(FALSE, "no_captcha")
                    /\ UNCHANGED <<session_active, solve_calls, retry, iterations,
                                   captcha_sleeps, result>>
               [] out = "invalid" ->
                    /\ LoginExcept(out)
                    /\ UNCHANGED <<solve_calls, retry, iterations, captcha_sleeps,
                                   result>>
    /\ round_trip' = FALSE
    /\ UNCHANGED <<traceVars, fileVars, sessionKeep, loopVars, attempt, site, login_calls,
                   backoffs, url, captcha_text, submits, tmp_files, interrupted>>

\* lines 265-269: solve_captcha has returned, and its locals are gone
AlSolved ==
    /\ pc = "sc_return"
    /\ IF captcha_text = NoText
       THEN LoginReturn(FALSE, "captcha_unsolved")
       ELSE pc' = "al_captcha_input" /\ UNCHANGED <<al_ret, path>>
    /\ retry' = 0
    /\ result' = NoResult
    /\ tmp_files' = 0
    /\ iterations' = 0
    /\ captcha_sleeps' = 0
    /\ round_trip' = FALSE
    /\ UNCHANGED <<traceVars, fileVars, sessionVars, loopVars, attempt, site, login_calls,
                   backoffs, url, captcha_text, submits, solve_calls, interrupted>>

\* lines 272-276: find the captcha input and type the code
AlCaptchaInput == LoginStep("al_captcha_input", "al_resubmit")

\* lines 279-284: click the login button again
AlResubmit == SubmitStep("al_resubmit", "al_url2")

\* AlUrl2 that looks for another captcha when the address still has "login"
AlUrl2_ProbeAgain ==
    /\ pc = "al_url2"
    /\ \E out \in BrowserOutcomes :
          /\ health' = HealthAfter(out)
          /\ IF out = "ok"
             THEN /\ \E u \in Urls :
                        /\ url' = u
                        /\ IF Classify(u) THEN LoginReturn(TRUE, "resubmitted")
                           ELSE pc' = "al_probe" /\ UNCHANGED <<al_ret, path>>
                  /\ UNCHANGED session_active
             ELSE LoginExcept(out) /\ UNCHANGED url
    /\ round_trip' = FALSE
    /\ UNCHANGED <<traceVars, fileVars, sessionKeep, loopVars, attempt, site, login_calls,
                   backoffs, captcha_text, submits, solve_calls, captchaVars,
                   interrupted>>

\* line 286: the outcome by the address after the second submit
AlUrl2 ==
    /\ pc = "al_url2"
    /\ \E out \in BrowserOutcomes :
          /\ health' = HealthAfter(out)
          /\ IF out = "ok"
             THEN /\ \E u \in Urls : url' = u /\ LoginReturn(Classify(u), "resubmitted")
                  /\ UNCHANGED session_active
             ELSE LoginExcept(out) /\ UNCHANGED url
    /\ round_trip' = FALSE
    /\ UNCHANGED <<traceVars, fileVars, sessionKeep, loopVars, attempt, site, login_calls,
                   backoffs, captcha_text, submits, solve_calls, captchaVars,
                   interrupted>>

attempt_login ==
    \/ AlCheck \/ AlGet \/ AlFill \/ AlSubmit \/ AlUrl \/ AlProbe \/ AlSolved
    \/ AlCaptchaInput \/ AlResubmit \/ AlUrl2

-----------------------------------------------------------------------------
(* take_screenshot, navigate_to_section, perform_logout; site is the step of *)
(* lines 361-373 they are called for                                          *)

\* lines 364-373: what process_account does once the work for site is over
NextSite ==
    CASE site = "dashboard" -> site' = "homework" /\ pc' = "nav_check"
      [] site = "homework"  -> site' = "marks" /\ pc' = "nav_check"
      [] site = "marks"     -> site' = "logout" /\ pc' = "lo_check"

\* lines 324-326: the liveness check of take_screenshot; False without a live session
TsCheck ==
    /\ pc = "ts_check"
    /\ \E alive \in BOOLEAN :
          /\ check_session_active(alive)
          /\ IF alive THEN pc' = "ts_save" /\ UNCHANGED site
             ELSE IF site = "dashboard" THEN NextSite
             ELSE pc' = "pa_delay" /\ UNCHANGED site
    /\ UNCHANGED <<lost, navs, logouts, backoff_intervals, logged_in, fileVars,
                   sessionKeep, loopVars, attempt, al_ret, login_calls,
                   backoffs, loginVars, captchaVars, interrupted>>

\* lines 328-335: save_screenshot; its result is not used
TsSave ==
    /\ pc = "ts_save"
    /\ \E out \in BrowserOutcomes : health' = HealthAfter(out)
    /\ IF site = "dashboard" THEN NextSite ELSE pc' = "pa_delay" /\ UNCHANGED site
    /\ round_trip' = FALSE
    /\ UNCHANGED <<traceVars, fileVars, sessionKeep, session_active, loopVars, attempt,
                   al_ret,
                   login_calls, backoffs, loginVars, captchaVars, interrupted>>

\* lines 366, 370: the pause after the screenshot of a section
PaDelay ==
    /\ pc = "pa_delay"
    /\ NextSite
    /\ round_trip' = FALSE
    /\ UNCHANGED <<traceVars, fileVars, sessionVars, loopVars, attempt, al_ret, login_calls,
                   backoffs, loginVars, captchaVars, interrupted>>

\* lines 301-303: the liveness check of navigate_to_section
NavCheck ==
    /\ pc = "nav_check"
    /\ \E alive \in BOOLEAN :
          /\ check_session_active(alive)
          /\ IF alive THEN pc' = "nav_get" /\ UNCHANGED site ELSE NextSite
    /\ UNCHANGED <<lost, navs, logouts, backoff_intervals, logged_in, fileVars,
                   sessionKeep, loopVars, attempt, al_ret, login_calls,
                   backoffs, loginVars, captchaVars, interrupted>>

\* NavGet whose failure does not keep process_account from the screenshot
NavGet_ScreenshotAnyway ==
    /\ pc = "nav_get"
    /\ \E out \in BrowserOutcomes :
          /\ health' = HealthAfter(out)
          /\ /\ pc' = IF out = "ok" THEN "nav_scroll" ELSE "ts_check"
             /\ UNCHANGED site
    /\ round_trip' = FALSE
    /\ UNCHANGED <<traceVars, fileVars, sessionKeep, session_active, loopVars, attempt,
                   al_ret,
                   login_calls, backoffs, loginVars, captchaVars, interrupted>>

\* lines 305-307: open the section and wait for its body
NavGet ==
    /\ pc = "nav_get"
    /\ \E out \in BrowserOutcomes :
          /\ health' = HealthAfter(out)
          /\ IF out = "ok" THEN pc' = "nav_scroll" /\ UNCHANGED site ELSE NextSite
    /\ round_trip' = FALSE
    /\ UNCHANGED <<traceVars, fileVars, sessionKeep, session_active, loopVars, attempt,
                   al_ret,
                   login_calls, backoffs, loginVars, captchaVars, interrupted>>

\* lines 310-317: scroll; True, and the screenshot of lines 365, 369
NavScroll ==
    /\ pc = "nav_scroll"
    /\ \E out \in BrowserOutcomes :
          /\ health' = HealthAfter(out)
          /\ IF out = "ok"
             THEN pc' = "ts_check" /\ navs' = navs \cup {site} /\ UNCHANGED site
             ELSE NextSite /\ UNCHANGED navs
    /\ round_trip' = FALSE
    /\ UNCHANGED <<lost, logouts, backoff_intervals, logged_in, fileVars, sessionKeep,
                   session_active, loopVars, attempt, al_ret,
                   login_calls, backoffs, loginVars, captchaVars, interrupted>>

\* line 374: process_account returns res
AccountReturn(res) ==
    /\ pa_ret' = res
    /\ pc' = "paa_account_done"

\* lines 339-341: the liveness check of perform_logout
LoCheck ==
    /\ pc = "lo_check"
    /\ \E alive \in BOOLEAN :
          /\ check_session_active(alive)
          /\ IF alive THEN pc' = "lo_get" /\ UNCHANGED pa_ret ELSE AccountReturn(TRUE)
    /\ logouts' = logouts + 1
    /\ UNCHANGED <<lost, navs, backoff_intervals, logged_in, fileVars, sessionKeep,
                   idx, success_count, started, login_ok,
                   accountVars, loginVars, captchaVars, interrupted>>

\* lines 343-351: open the logout page; its result is not used.  The site ends
\* the login when the page has loaded; when the call raises it has done so or not
LoGet ==
    /\ pc = "lo_get"
    /\ \E out \in BrowserOutcomes :
          /\ health' = HealthAfter(out)
          /\ logged_in' \in (IF out = "ok" THEN {FALSE} ELSE {FALSE, logged_in})
    /\ AccountReturn(TRUE)
    /\ round_trip' = FALSE
    /\ UNCHANGED <<lost, navs, logouts, backoff_intervals, fileVars, sessionKeep,
                   session_active, idx, success_count, started,
                   login_ok, accountVars, loginVars, captchaVars, interrupted>>

capture == TsCheck \/ TsSave \/ PaDelay \/ NavCheck \/ NavGet \/ NavScroll \/ LoCheck \/ LoGet

-----------------------------------------------------------------------------
(* process_account.  Every function it calls catches Exception in its whole *)
(* body, so no exception reaches the handler of lines 381-387.              *)

\* lines 355-359: an attempt begins with the call of attempt_login
PaAttempt ==
    /\ pc = "pa_attempt"
    /\ login_calls' = login_calls + 1
    /\ pc' = "al_check"
    /\ round_trip' = FALSE
    /\ UNCHANGED <<traceVars, fileVars, sessionVars, loopVars, attempt, site, al_ret,
                   backoffs,
                   loginVars, captchaVars, interrupted>>

\* PaLoginDone with the test of line 377 off by one, and one more turn of the loop
PaLoginDone_OneMore ==
    /\ pc = "pa_login_done"
    /\ IF al_ret
       THEN /\ login_ok' = login_ok \cup {idx}
            /\ site' = "dashboard"
            /\ pc' = "ts_check"
            /\ UNCHANGED pa_ret
       ELSE /\ IF attempt <= MAX_ATTEMPTS
               THEN pc' = "pa_backoff" /\ UNCHANGED pa_ret
               ELSE AccountReturn(FALSE)
            /\ UNCHANGED <<login_ok, site>>
    /\ logged_in' = (al_ret \/ logged_in)
    /\ lost' = IF ~al_ret /\ health = "dead" THEN driver ELSE 0
    /\ al_ret' = FALSE
    /\ url' = <<>>
    /\ captcha_text' = NoText
    /\ path' = "none"
    /\ submits' = 0
    /\ solve_calls' = 0
    /\ round_trip' = FALSE
    /\ UNCHANGED <<navs, logouts, backoff_intervals, fileVars, sessionVars, idx,
                   success_count, started, attempt,
                   login_calls, backoffs, captchaVars, interrupted>>

\* lines 359-361 and 375-377, 389-390: attempt_login has returned, and its locals are gone
PaLoginDone ==
    /\ pc = "pa_login_done"
    /\ IF al_ret
       THEN /\ login_ok' = login_ok \cup {idx}
            /\ site' = "dashboard"
            /\ pc' = "ts_check"
            /\ UNCHANGED pa_ret
       ELSE /\ IF attempt < MAX_ATTEMPTS
               THEN pc' = "pa_backoff" /\ UNCHANGED pa_ret
               ELSE AccountReturn(FALSE)
            /\ UNCHANGED <<login_ok, site>>
    /\ logged_in' = (al_ret \/ logged_in)
    /\ lost' = IF ~al_ret /\ health = "dead" THEN driver ELSE 0
    /\ al_ret' = FALSE
    /\ url' = <<>>
    /\ captcha_text' = NoText
    /\ path' = "none"
    /\ submits' = 0
    /\ solve_calls' = 0
    /\ round_trip' = FALSE
    /\ UNCHANGED <<navs, logouts, backoff_intervals, fileVars, sessionVars, idx,
                   success_count, started, attempt,
                   login_calls, backoffs, captchaVars, interrupted>>

\* BackoffInterval scaled by the number of the attempt
BackoffInterval_Scaled(a) == [low |-> 2 * a, high |-> 3 * a]

\* line 378: the interval random.uniform draws the backoff after attempt a from, in
\* halves of DELAY_BETWEEN_ATTEMPTS, the positive value line 21 drew at import
BackoffInterval(a) == [low |-> 2, high |-> 3]

\* lines 378-379: the backoff sleep, then the next attempt
PaBackoff ==
    /\ pc = "pa_backoff"
    /\ backoffs' = backoffs + 1
    /\ backoff_intervals' = Append(backoff_intervals, BackoffInterval(attempt))
    /\ attempt' = attempt + 1
    /\ pc' = "pa_attempt"
    /\ round_trip' = FALSE
    /\ UNCHANGED <<lost, navs, logouts, logged_in, fileVars, sessionVars, loopVars,
                   site, al_ret, login_calls,
                   loginVars, captchaVars, interrupted>>

process_account == PaAttempt \/ PaLoginDone \/ PaBackoff

-----------------------------------------------------------------------------
(* process_all_accounts *)

\* line 405: the call of process_account for credentials_list[i]
CallAccount(i) ==
    /\ idx' = i
    /\ pa_ret' = FALSE
    /\ started' = Append(started, i)
    /\ attempt' = 1
    /\ login_calls' = 0
    /\ backoffs' = 0
    /\ backoff_intervals' = <<>>
    /\ site' = "none"
    /\ pc' = "pa_attempt"

\* lines 394-396: nothing to do without credentials
PaaEmpty ==
    /\ pc = "constructed"
    /\ credentials_list = <<>>
    /\ pc' = "done"
    /\ round_trip' = FALSE
    /\ UNCHANGED <<traceVars, fileVars, sessionVars, loopVars, accountVars, loginVars,
                   captchaVars, interrupted>>

\* line 398: the first init_driver
PaaStart ==
    /\ pc = "constructed"
    /\ credentials_list # <<>>
    /\ init_ret' = "paa"
    /\ pc' = "init_quit"
    /\ round_trip' = FALSE
    /\ UNCHANGED <<traceVars, fileVars, driver, session_active, main_window, opened, health,
                   closed, quit_calls, recovered, loopVars, accountVars, loginVars, captchaVars,
                   interrupted>>

\* lines 399-405: the loop begins
PaaEnter ==
    /\ pc = "paa_enter"
    /\ success_count' = 0
    /\ CallAccount(1)
    /\ round_trip' = FALSE
    /\ UNCHANGED <<lost, navs, logouts, logged_in, fileVars, sessionVars, login_ok,
                   al_ret, loginVars,
                   captchaVars, interrupted>>

\* PaaAccountDone that counts every account
PaaAccountDone_CountAll ==
    /\ pc = "paa_account_done"
    /\ round_trip' = FALSE
    /\ navs' = {}
    /\ logouts' = 0
    /\ success_count' = success_count + 1
    /\ pc' = IF idx < Len(credentials_list) THEN "paa_delay" ELSE "paa_finally"
    /\ UNCHANGED <<lost, backoff_intervals, logged_in, fileVars, sessionVars, idx,
                   pa_ret, started, login_ok, accountVars,
                   loginVars, captchaVars, interrupted>>

\* PaaAccountDone that leaves the loop when an account failed
PaaAccountDone_StopOnFailure ==
    /\ pc = "paa_account_done"
    /\ round_trip' = FALSE
    /\ navs' = {}
    /\ logouts' = 0
    /\ success_count' = IF pa_ret THEN success_count + 1 ELSE success_count
    /\ pc' = IF pa_ret /\ idx < Len(credentials_list) THEN "paa_delay" ELSE "paa_finally"
    /\ UNCHANGED <<lost, backoff_intervals, logged_in, fileVars, sessionVars, idx,
                   pa_ret, started, login_ok, accountVars,
                   loginVars, captchaVars, interrupted>>

\* lines 405-413: count the result of process_account; go on or leave the loop
PaaAccountDone ==
    /\ pc = "paa_account_done"
    /\ round_trip' = FALSE
    /\ navs' = {}
    /\ logouts' = 0
    /\ success_count' = IF pa_ret THEN success_count + 1 ELSE success_count
    /\ pc' = IF idx < Len(credentials_list) THEN "paa_delay" ELSE "paa_finally"
    /\ UNCHANGED <<lost, backoff_intervals, logged_in, fileVars, sessionVars, idx,
                   pa_ret, started, login_ok, accountVars,
                   loginVars, captchaVars, interrupted>>

\* lines 410-411 and 402-405: the pause between accounts, then the next account
PaaDelay ==
    /\ pc = "paa_delay"
    /\ CallAccount(idx + 1)
    /\ round_trip' = FALSE
    /\ UNCHANGED <<lost, navs, logouts, logged_in, fileVars, sessionVars,
                   success_count, login_ok, al_ret,
                   loginVars, captchaVars, interrupted>>

\* PaaFinally as a cleanup after the loop that only the normal end reaches
PaaFinally_NormalOnly ==
    /\ pc = "paa_finally"
    /\ IF driver # 0 /\ ~interrupted
       THEN /\ closed' = closed \cup {driver}
            /\ quit_calls' = quit_calls + 1
            /\ health' = "quit"
            /\ \E raised \in BOOLEAN :
                  session_active' = IF raised THEN session_active ELSE FALSE
       ELSE UNCHANGED <<closed, quit_calls, health, session_active>>
    /\ pc' = IF interrupted THEN "killed" ELSE "done"
    /\ round_trip' = FALSE
    /\ UNCHANGED <<traceVars, fileVars, driver, main_window, opened, recovered, init_ret,
                   loopVars, accountVars, loginVars, captchaVars, interrupted>>

\* lines 418-424: quit the session; session_active = False unless quit() raised.
\* A KeyboardInterrupt goes on to line 430, which does not catch it.
PaaFinally ==
    /\ pc = "paa_finally"
    /\ IF driver # 0
       THEN /\ closed' = closed \cup {driver}
            /\ quit_calls' = quit_calls + 1
            /\ health' = "quit"
            /\ \E raised \in BOOLEAN :
                  session_active' = IF raised THEN session_active ELSE FALSE
       ELSE UNCHANGED <<closed, quit_calls, health, session_active>>
    /\ pc' = IF interrupted THEN "killed" ELSE "done"
    /\ round_trip' = FALSE
    /\ UNCHANGED <<traceVars, fileVars, driver, main_window, opened, recovered, init_ret,
                   loopVars, accountVars, loginVars, captchaVars, interrupted>>

\* the positions at which the thread waits for the browser, the network or a sleep
Blocking ==
    {"init_construct", "init_setup", "al_check", "al_get", "al_fill", "al_submit",
     "al_url", "al_probe", "al_captcha_input", "al_resubmit", "al_url2", "sc_locate",
     "sc_sleep", "sc_download", "sc_ocr", "pa_backoff", "ts_check", "ts_save",
     "pa_delay", "nav_check", "nav_get", "nav_scroll", "lo_check", "lo_get",
     "paa_delay"}

\* the positions outside the try of lines 401-424
BeforeTry == init_ret = "paa" /\ pc \in {"init_construct", "init_setup"}

\* KeyboardInterrupt while the thread waits: no except Exception catches it; the
\* finally of lines 194-199 and that of lines 418-424 run on its way out
Interrupt ==
    /\ pc \in Blocking
    /\ interrupted' = TRUE
    /\ tmp_files' = IF pc = "sc_ocr" THEN tmp_files - 1 ELSE tmp_files
    /\ pc' = IF BeforeTry THEN "killed" ELSE "paa_finally"
    /\ round_trip' = FALSE
    /\ UNCHANGED <<traceVars, fileVars, sessionVars, loopVars, accountVars, loginVars,
                   retry,
                   result, iterations, captcha_sleeps>>

process_all_accounts == PaaEmpty \/ PaaStart \/ PaaEnter \/ PaaAccountDone \/ PaaDelay \/ PaaFinally

-----------------------------------------------------------------------------
(* The program: __main__ constructs the object and calls process_all_accounts *)

\* a LOGIN_FILE of n lines that give n different pairs
RECURSIVE Repeat(_, _)
Repeat(c, n) == IF n = 0 THEN <<>> ELSE <<c>> \o Repeat(c, n - 1)

RECURSIVE FileOf(_)
FileOf(n) == IF n = 0 THEN <<>> ELSE FileOf(n - 1) \o Repeat("a", n) \o <<":", "a", "\n">>

\* the texts the OCR service returns in the whole program: five digits, four digits
SampleTexts == {Repeat("1", CAPTCHA_LENGTH), Repeat("1", CAPTCHA_LENGTH - 1)}

\* the state when __init__ has returned, lines 428-429
Init ==
    /\ pc = "constructed"
    /\ file_exists = TRUE
    /\ \E n \in 0..MaxCreds :
          /\ file_text = FileOf(n)
          /\ file_was_missing \in (IF n = 0 THEN BOOLEAN ELSE {FALSE})
    /\ credentials_list = ParseLines(StrippedLines(readlines(file_text)), {}, <<>>)
    /\ Fresh

Next ==
    \/ process_all_accounts
    \/ init_driver
    \/ process_account
    \/ attempt_login
    \/ solve_captcha(OcrResults(SampleTexts))
    \/ capture
    \/ Interrupt

Spec == Init /\ [][Next]_vars

\* the one thread always takes its next step: every wait of the program is bounded
FairSpec == Spec /\ WF_vars(Next)

-----------------------------------------------------------------------------
(* solve_captcha on its own, for every ParsedText of up to MaxTextLen       *)
(* characters: the state in which line 265 calls it in the first attempt   *)

InitCaptcha ==
    /\ pc = "sc_locate"
    /\ file_exists = TRUE
    /\ file_text = FileOf(1)
    /\ file_was_missing = FALSE
    /\ credentials_list = ParseLines(StrippedLines(readlines(file_text)), {}, <<>>)
    /\ driver = 1
    /\ session_active = TRUE
    /\ main_window = 1
    /\ opened = 1
    /\ health = "live"
    /\ closed = {}
    /\ quit_calls = 0
    /\ recovered = FALSE
    /\ init_ret = "paa"
    /\ idx = 1
    /\ success_count = 0
    /\ pa_ret = FALSE
    /\ attempt = 1
    /\ site = "none"
    /\ al_ret = FALSE
    /\ url = LoginUrl
    /\ captcha_text = NoText
    /\ retry = 0
    /\ result = NoResult
    /\ tmp_files = 0
    /\ interrupted = FALSE
    /\ started = <<1>>
    /\ login_ok = {}
    /\ login_calls = attempt
    /\ backoffs = attempt - 1
    /\ path = "none"
    /\ submits = 1
    /\ solve_calls = 1
    /\ iterations = 1
    /\ captcha_sleeps = 0
    /\ round_trip = FALSE
    /\ lost = 0
    /\ navs = {}
    /\ logouts = 0
    /\ backoff_intervals = <<>>
    /\ logged_in = FALSE

NextCaptcha == solve_captcha(OcrResults(OcrTexts))

SpecCaptcha == InitCaptcha /\ [][NextCaptcha]_vars

-----------------------------------------------------------------------------
(* Claims about load_credentials, checked under SpecLoad *)

RawLines == readlines(file_text)

NonBlank(l) == \E i \in 1..Len(l) : ~IsSpace(l[i])
HasColon(l) == \E i \in 1..Len(l) : l[i] = ":"
FirstColon(l) == CHOOSE i \in 1..Len(l) : l[i] = ":" /\ \A j \in 1..(i - 1) : l[j] # ":"

Trimmed(s) ==
    LET keep == {i \in 1..Len(s) : ~IsSpace(s[i])}
    IN  IF keep = {} THEN <<>>
        ELSE SubSeq(s, CHOOSE i \in keep : \A j \in keep : i <= j,
                       CHOOSE i \in keep : \A j \in keep : i >= j)

PairOf(l) ==
    <<Trimmed(SubSeq(l, 1, FirstColon(l) - 1)),
      Trimmed(SubSeq(l, FirstColon(l) + 1, Len(l)))>>

ValidLines == {i \in 1..Len(RawLines) : NonBlank(RawLines[i]) /\ HasColon(RawLines[i])}

FirstLineOf(pair) ==
    CHOOSE i \in ValidLines :
        /\ PairOf(RawLines[i]) = pair
        /\ \A j \in ValidLines : PairOf(RawLines[j]) = pair => i <= j

\* C9: after load_credentials has read an existing file, credentials_list holds
\* exactly the pairs of the non-blank lines that contain a colon, each split at
\* its first colon and trimmed, no pair twice, in the order of first appearance.
C9_LoadedPairs ==
    (pc = "constructed" /\ ~file_was_missing) =>
        /\ \A k \in 1..Len(credentials_list) :
               \E i \in ValidLines : PairOf(RawLines[i]) = credentials_list[k]
        /\ \A i \in ValidLines :
               \E k \in 1..Len(credentials_list) : credentials_list[k] = PairOf(RawLines[i])
        /\ \A j, k \in 1..Len(credentials_list) :
               j < k => /\ credentials_list[j] # credentials_list[k]
                        /\ FirstLineOf(credentials_list[j]) < FirstLineOf(credentials_list[k])

\* a file with a pair, the same pair again and a non-blank line without a colon
C9_Witness ==
    /\ pc = "constructed"
    /\ Len(RawLines) = 3
    /\ Cardinality(ValidLines) = 2
    /\ \E i \in 1..3 : NonBlank(RawLines[i]) /\ ~HasColon(RawLines[i])
    /\ Len(credentials_list) = 1

\* C10: when the file is missing, load_credentials ends normally with an empty
\* file created and credentials_list empty.
C10_MissingFile ==
    (file_was_missing /\ pc # "load") =>
        /\ pc = "constructed"
        /\ file_exists
        /\ file_text = <<>>
        /\ credentials_list = <<>>

C10_Witness == file_was_missing /\ pc = "constructed" /\ file_exists

-----------------------------------------------------------------------------
(* Claims about solve_captcha, checked under SpecCaptcha *)

DigitChars == {"0", "1", "2", "3", "4", "5", "6", "7", "8", "9"}
DigitsOf(text) == SelectSeq(text, LAMBDA c : c \in DigitChars)
Accepted(r) == r.kind = "parsed" /\ Len(DigitsOf(r.text)) = 5
Returned == pc = "sc_return"

\* C5: solve_captcha never starts more than MAX_CAPTCHA_RETRIES iterations; it
\* returns None only after exactly that many; and an iteration whose result is
\* accepted is the last one: the code is returned and no further iteration runs.
C5_RetryBound ==
    /\ iterations <= MAX_CAPTCHA_RETRIES
    /\ (Returned /\ captcha_text = NoText) => iterations = MAX_CAPTCHA_RETRIES
    /\ (Accepted(result) /\ pc # "sc_parse") =>
           Returned /\ captcha_text # NoText /\ iterations = retry + 1

\* both iterations got a ParsedText of the wrong length
C5_Witness ==
    /\ Returned
    /\ captcha_text = NoText
    /\ iterations = MAX_CAPTCHA_RETRIES
    /\ result.kind = "parsed"
    /\ tmp_files = 0

\* C6: a value solve_captcha returns is the ParsedText of the iteration with the
\* non-digits removed, and has exactly 5 characters, all digits; a ParsedText
\* whose digits are not 5 is not returned: its iteration is over without a code.
C6_FiveDigits ==
    /\ (Returned /\ captcha_text # NoText) =>
           /\ result.kind = "parsed"
           /\ captcha_text = DigitsOf(result.text)
           /\ Len(captcha_text) = 5
           /\ \A i \in 1..Len(captcha_text) : captcha_text[i] \in DigitChars
    /\ (result.kind = "parsed" /\ ~Accepted(result) /\ pc # "sc_parse") =>
           /\ captcha_text = NoText
           /\ Returned \/ retry >= 1

\* five digits among other characters are returned by the first iteration
C6_Witness ==
    /\ Returned
    /\ captcha_text # NoText
    /\ Len(result.text) > Len(captcha_text)
    /\ iterations = 1

-----------------------------------------------------------------------------
(* Claims about attempt_login, checked under Spec *)

OnLoginPage(u) == "login" \in {u[i] : i \in 1..Len(u)}
LoginReturned == pc = "pa_login_done"

\* C7: attempt_login returns True exactly when the address read after the last
\* submit has no "login" in it; it returns False when the address has it and no
\* captcha shows, and when solve_captcha gives None; after the second submit the
\* result is decided by the new address alone.
C7_Classification ==
    LoginReturned =>
        /\ al_ret <=> (path \in {"address", "resubmitted"} /\ ~OnLoginPage(url))
        /\ path = "address" => al_ret /\ submits = 1 /\ solve_calls = 0
        /\ path = "no_captcha" => ~al_ret /\ OnLoginPage(url) /\ solve_calls = 0
        /\ path = "captcha_unsolved" => ~al_ret /\ OnLoginPage(url) /\ captcha_text = NoText
        /\ path = "resubmitted" =>
               /\ al_ret = ~OnLoginPage(url)
               /\ captcha_text # NoText
               /\ submits = 2

\* success after a solved captcha and a second submit
C7_Witness ==
    /\ LoginReturned
    /\ path = "resubmitted"
    /\ al_ret
    /\ ~OnLoginPage(url)

\* C8: one attempt_login calls solve_captcha at most once and clicks the login
\* button at most twice; past the captcha it only goes on to its return.
C8_OneCaptchaRound ==
    /\ solve_calls <= 1
    /\ submits <= 2
    /\ pc \in {"al_captcha_input", "al_resubmit", "al_url2"} => solve_calls = 1
    /\ pc = "al_url2" => submits = 2

\* the second submit left the address on the login page: Failed, no second captcha
C8_Witness ==
    /\ LoginReturned
    /\ path = "resubmitted"
    /\ ~al_ret
    /\ solve_calls = 1
    /\ submits = 2

-----------------------------------------------------------------------------
(* Claims about process_account and process_all_accounts, checked under Spec *)

AccountReturned == pc = "paa_account_done"
Ended == pc \in {"done", "killed"}
LoopStarted == started # <<>>

\* C1: process_account makes at most MAX_ATTEMPTS calls of attempt_login; when
\* none of the calls for a credential returned True, it returns False after
\* exactly MAX_ATTEMPTS calls and MAX_ATTEMPTS - 1 backoff sleeps, and it returns
\* False in no other case; once the result is counted, success_count is still
\* the number of the accounts logged in, of which this one is none.
C1_AllAttemptsFail ==
    /\ login_calls <= MAX_ATTEMPTS
    /\ (AccountReturned /\ idx \notin login_ok) =>
           /\ ~pa_ret
           /\ login_calls = MAX_ATTEMPTS
           /\ backoffs = MAX_ATTEMPTS - 1
    /\ (AccountReturned /\ ~pa_ret) => idx \notin login_ok
    /\ (pc \in {"paa_delay", "paa_finally"} /\ ~interrupted /\ ~pa_ret) =>
           /\ idx \notin login_ok
           /\ success_count = Cardinality(login_ok)

\* a credential failed three times with two backoffs, and nothing was counted
C1_Witness ==
    /\ pc = "paa_finally"
    /\ ~interrupted
    /\ ~pa_ret
    /\ login_calls = MAX_ATTEMPTS
    /\ backoffs = MAX_ATTEMPTS - 1
    /\ success_count = 0

\* C2: process_account is called for the credentials in list order, each once;
\* and once the loop has started, every credential of the list gets its call,
\* whatever fails on the way, unless a KeyboardInterrupt ends the run.
C2_AllProcessed ==
    /\ [](/\ \A i \in 1..Len(started) : started[i] = i
          /\ Len(started) <= Len(credentials_list)
          /\ LoopStarted => idx = Len(started))
    /\ \A i \in 1..MaxCreds :
          (LoopStarted /\ i <= Len(credentials_list)) ~> (Len(started) >= i \/ interrupted)

\* the first account failed and the session died on the way; the second was processed
C2_Witness ==
    /\ pc = "done"
    /\ Len(credentials_list) = 2
    /\ started = <<1, 2>>
    /\ 1 \notin login_ok
    /\ recovered

\* C3: once the loop has started, the run ends with quit() called on the session
\* in self.driver, also when a KeyboardInterrupt ends the loop; without a
\* recovery quit() is called on it exactly once, and not before the cleanup.
C3_SessionClosed ==
    /\ (Ended /\ LoopStarted) => driver \in closed /\ quit_calls >= 1
    /\ (Ended /\ LoopStarted /\ ~recovered) => quit_calls = 1 /\ closed = {driver}
    /\ (~Ended /\ LoopStarted /\ ~recovered) => quit_calls = 0 /\ closed = {}

\* an interrupt ended the loop in the first account
C3_Witness ==
    /\ pc = "killed"
    /\ started = <<1>>
    /\ Len(credentials_list) = 2
    /\ driver \in closed
    /\ quit_calls = 1

\* C4: when the loop is over, success_count is the number of credentials for
\* which a call of attempt_login returned True.
C4_SuccessCount ==
    /\ success_count <= Cardinality(login_ok)
    /\ (pc \in {"paa_finally", "done"} /\ ~interrupted /\ credentials_list # <<>>) =>
           success_count = Cardinality(login_ok)

\* the first of two credentials logged in, the second never: 1 out of 2
C4_Witness ==
    /\ pc = "done"
    /\ Len(credentials_list) = 2
    /\ login_ok = {1}
    /\ success_count = 1

-----------------------------------------------------------------------------
(* Claims about the liveness of the session, checked under Spec *)

\* the positions whose next step is a navigation, an element lookup, a read of
\* the address or a screenshot on self.driver; the read of current_url that
\* check_session_active makes is not among them
Operations ==
    {"al_get", "al_fill", "al_submit", "al_url", "al_probe", "al_captcha_input",
     "al_resubmit", "al_url2", "sc_locate", "nav_get", "nav_scroll", "ts_save",
     "lo_get"}

\* C11: every operation on the browser comes after a liveness check that found
\* the session alive or after an init_driver that replaced it, so it is never
\* issued on a session that has already raised a session-identity error.
C11_CheckThenRecover ==
    pc \in Operations => session_active /\ health = "live"

\* C12: once an operation has raised a session-identity error the session is
\* dead, and no further operation is issued on it while session_active is
\* still True.
C12_FlagFlippedBeforeUse ==
    (pc \in Operations /\ health = "dead") => ~session_active

-----------------------------------------------------------------------------
(* Claims about the retries of solve_captcha, checked under SpecCaptcha *)

\* C13: a sleep separates every two iterations of solve_captcha, whatever made
\* the earlier one fail, and none follows the last: while solve_captcha runs and
\* when it returns, it has slept once less than it has started iterations.
C13_SleepBetweenRetries ==
    iterations >= 1 => captcha_sleeps = iterations - 1

\* C14: no temporary file of solve_captcha is left when an iteration begins or
\* when solve_captcha returns: each iteration has removed the file it created.
C14_TempFilesRemoved ==
    pc \in {"sc_locate", "sc_return"} => tmp_files = 0

-----------------------------------------------------------------------------
(* Claims about recovery between the attempts of process_account, under Spec *)

\* C15: attempt_login opens the login page only on a session that is alive and
\* marked active and that quit() was never called on; when the attempt before
\* ended with its session dead, init_driver has replaced that session by then.
C15_RecoverBeforeNextAttempt ==
    /\ pc = "al_get" => session_active /\ health = "live" /\ driver \notin closed
    /\ (pc = "al_get" /\ lost # 0) => driver # lost /\ lost \in closed /\ recovered

\* the first attempt lost its session; the second is about to open the login
\* page on a new one
C15_Witness ==
    /\ pc = "al_get"
    /\ attempt = 2
    /\ lost = 1
    /\ driver = 2
    /\ health = "live"

-----------------------------------------------------------------------------
(* Claims about process_account after a successful login, checked under Spec *)

\* the positions inside attempt_login, the functions it calls and the backoff
LoginPositions ==
    {"pa_attempt", "al_check", "init_quit", "init_construct", "init_setup", "al_get",
     "al_fill", "al_submit", "al_url", "al_probe", "sc_locate", "sc_sleep",
     "sc_download", "sc_save", "sc_ocr", "sc_parse", "sc_return", "al_captcha_input",
     "al_resubmit", "al_url2", "pa_login_done", "pa_backoff"}

\* C16: once attempt_login has returned True for a credential, no other
\* attempt_login is made for it; perform_logout is called once, after the
\* captures; process_account returns True whatever came of the screenshots, the
\* sections and the logout; and take_screenshot is called for a section only when
\* navigate_to_section returned True for it.
C16_AfterLogin ==
    /\ idx \in login_ok => pc \notin LoginPositions
    /\ pc = "lo_check" => logouts = 0 /\ site = "logout"
    /\ pc = "lo_get" => logouts = 1
    /\ (AccountReturned /\ idx \in login_ok) => pa_ret /\ logouts = 1
    /\ (AccountReturned /\ idx \notin login_ok) => logouts = 0
    /\ (pc \in {"ts_check", "ts_save"} /\ site # "dashboard") => site \in navs

\* True is returned after a run in which the first section could not be opened
\* and the session was dead by the time of the logout
C16_Witness ==
    /\ AccountReturned
    /\ pa_ret
    /\ navs = {"marks"}
    /\ logouts = 1
    /\ health = "dead"

-----------------------------------------------------------------------------
(* Claims about check_session_active, checked under Spec *)

\* the positions at which check_session_active is called, and for each the
\* position its caller goes on to when it returns True
CheckPositions == {"al_check", "ts_check", "nav_check", "lo_check"}
AliveBranch ==
    [al_check |-> "al_get", ts_check |-> "ts_save", nav_check |-> "nav_get",
     lo_check |-> "lo_get"]

\* a step of check_session_active: what it returns and what it changes
CheckStep ==
    (pc \in CheckPositions /\ ~interrupted') =>
        LET ret == (pc' = AliveBranch[pc])
        IN  /\ ~session_active =>
                   ~ret /\ ~round_trip' /\ UNCHANGED <<session_active, health>>
            /\ session_active =>
                   /\ round_trip'
                   /\ ret <=> session_active'
                   /\ ret => health' = "live"

\* a step that sets session_active is the last step of init_driver
FlagSetStep ==
    (~session_active /\ session_active') =>
        pc = "init_setup" /\ pc' \in {"paa_enter", "al_get"} /\ main_window' = driver

\* C17: with session_active False, as it is before the first init_driver,
\* check_session_active returns False without reading current_url and changes
\* nothing; with session_active True it reads current_url once, returns True and
\* leaves the flag when the read succeeds, clears the flag and returns False
\* when it raises; session_active becomes True only at the end of init_driver.
C17_LivenessCheck ==
    /\ [](driver = 0 => ~session_active)
    /\ [][CheckStep /\ FlagSetStep]_vars

\* a check that read current_url on a dead session: flag cleared, False returned
C17_Witness ==
    /\ pc = "init_quit"
    /\ init_ret = "login"
    /\ round_trip
    /\ ~session_active
    /\ health = "dead"

-----------------------------------------------------------------------------
(* Claims about the backoff of process_account, checked under Spec *)

\* C18 as claimed: each backoff of a credential is drawn from an interval above
\* that of the backoff before it.
C18_BackoffScaled ==
    \A k \in 1..(Len(backoff_intervals) - 1) :
        /\ backoff_intervals[k + 1].low > backoff_intervals[k].low
        /\ backoff_intervals[k + 1].high > backoff_intervals[k].high

\* C18, amended: every backoff of a credential is drawn from the same interval,
\* from DELAY_BETWEEN_ATTEMPTS to one and a half times that, whatever the attempt;
\* there is one backoff for each failed attempt but the last.
C18_BackoffSameInterval ==
    /\ Len(backoff_intervals) = backoffs
    /\ \A k \in 1..Len(backoff_intervals) :
           /\ backoff_intervals[k].low = 2
           /\ backoff_intervals[k].high = 3
           /\ backoff_intervals[k] = backoff_intervals[1]

\* both backoffs of a credential have been slept
C18_Witness ==
    /\ pc = "pa_attempt"
    /\ attempt = MAX_ATTEMPTS
    /\ Len(backoff_intervals) = MAX_ATTEMPTS - 1

-----------------------------------------------------------------------------
(* Claims about the browser sessions of a run, checked under Spec *)

\* C19: when process_all_accounts has returned ("done") or an exception has
\* left it ("crashed"), quit() has been called on every session that
\* webdriver.Chrome() constructed.
C19_NoSessionLeaked ==
    pc \in {"done", "crashed"} => \A s \in 1..opened : s \in closed

\* C20: attempt_login never opens the login page on a session that still holds
\* the login of a credential processed before: by then the logout page has
\* loaded on that session or init_driver has replaced it.
C20_NoCarriedLogin ==
    pc = "al_get" => ~logged_in

====
